---- MODULE Spec2Model ----
\* Metadata versioning model of the medical version-control shell
\* (src/src/models/vcs-shell.py, src/src/models/utils.py).
\*
\* Strings that the code builds by formatting (ids) are sequences of tokens, so
\* that "ORIG_<patient>_<minute>" and "SEG_<original>_<n>" are built by
\* concatenation as the f-strings build them.  JSON objects are functions from
\* keys to values, JSON arrays are sequences.
EXTENDS Integers, Sequences, FiniteSets, TLC

\* ---------------------------------------------------------------- bounds
MaxRegistrations == 4   \* successful registrations explored
MaxRaceRegistrations == 3   \* of them by two processes side by side

\* ---------------------------------------------------------------- inputs
Dirs == {"d1", "d2"}
Patients == {<<"P1">>, <<"P2">>}
\* What the clock can read: the minutes after 10:30 and the seconds.
Minutes == {0, 1}
Seconds == {0}

\* Paths the user can name.  "scans" is a directory: it exists, but
\* `git hash-object` exits non-zero on it.  "missing.nii" does not exist.
ImageFiles == {"a.nii", "b.nii"}
ExistingPaths == ImageFiles \cup {"scans"}
Paths == ExistingPaths \cup {"missing.nii"}

\* The (image_file, patient_id, study_info) a user registers an original with.
OriginalRequests ==
    {<<"a.nii", <<"P1">>, "brain MRI">>, <<"b.nii", <<"P1">>, "chest CT">>,
     <<"a.nii", <<"P2">>, "brain MRI">>, <<"scans", <<"P1">>, "brain MRI">>,
     <<"missing.nii", <<"P2">>, "chest CT">>}

\* The (segmentation_file, description, method) a user registers a derivative
\* with; "" is the default of method.
DerivativeRequests ==
    {<<"b.nii", "tumor seg", "">>,
     <<"scans", "liver seg", "">>, <<"missing.nii", "liver seg", "">>}

\* self.metadata_file
metadata_file == "dummy_metadata.json"

\* ------------------------------------------------------- file contents
\* What a path of the metadata file can hold: nothing (absent), zero bytes
\* (opened with mode 'w' and nothing dumped), the first part of a dump that
\* did not finish, text that is not JSON (a comparison report), or a JSON
\* document.
Absent == [kind |-> "absent"]
Empty == [kind |-> "empty"]
Truncated == [kind |-> "truncated"]
ReportText == [kind |-> "text"]
Json(doc) == [kind |-> "json", doc |-> doc]
IsDoc(c) == c.kind = "json"

\* utils.BaseMetaData as the dictionary its body spells out.
BaseMetaData ==
    [original_images |-> <<>>, derivatives |-> <<>>, patient_data |-> <<>>,
     segmentations |-> <<>>, versions |-> <<>>]

\* json.dump(utils.BaseMetaData, f): BaseMetaData is declared with `class`,
\* so the object handed to json.dump is a type, not a dict; the encoder raises
\* TypeError before it yields the first chunk and nothing is written.
DumpBaseMetaData == [raises |-> "TypeError", written |-> Empty]

\* ------------------------------------------------------------- helpers
\* datetime.now().strftime('%Y%m%d%H%M'): the date and the minute of the day,
\* fixed width, seconds dropped.
Strftime(t) == <<ToString(20261104), ToString(1030 + t.minute)>>

\* datetime.now().isoformat(): full resolution.  The two reads of the clock
\* in one registration (id, timestamp) are one read here.
Isoformat(t) == <<t.minute, t.second>>

\* subprocess.check_output(['git', 'hash-object', file]): a function of the
\* file's content; raises CalledProcessError on a directory.
Hashable(path) == path \in ImageFiles
HashObject(path) == <<"blob", path>>

\* Mutant: the id is built from the minute alone.
NewOriginalId_NoPatient(patient_id, t) == <<"ORIG", "_">> \o Strftime(t)

\* f"ORIG_{patient_id}_{datetime.now().strftime('%Y%m%d%H%M')}"
NewOriginalId(patient_id, t) == <<"ORIG", "_">> \o patient_id \o <<"_">> \o Strftime(t)

\* Mutant: the id carries no index.
NewVersionId_NoIndex(original_id, metadata) == <<"SEG", "_">> \o original_id

\* Mutant: the index counts the versions of this original only.
NewVersionId_PerOriginal(original_id, metadata) ==
    <<"SEG", "_">> \o original_id \o
        <<"_", ToString(Cardinality({v \in DOMAIN metadata.versions :
                   metadata.versions[v].original_id = original_id}) + 1)>>

\* f"SEG_{original_id}_{len(metadata['versions']) + 1}"
NewVersionId(original_id, metadata) ==
    <<"SEG", "_">> \o original_id \o
        <<"_", ToString(Cardinality(DOMAIN metadata.versions) + 1)>>

\* d[key] = value on a dictionary
DictSet(d, key, value) == (key :> value) @@ d

\* The entry register_original_image stores under the new id.
OriginalEntry(image_file, patient_id, study_info, t) ==
    [file |-> image_file, patient_id |-> patient_id, study_info |-> study_info,
     timestamp |-> Isoformat(t), hash |-> HashObject(image_file)]

\* The entry register_derivatives_images stores under the new version id.
VersionEntry(original_id, segmentation_file, patient_id, description, method, t) ==
    [original_id |-> original_id, file |-> segmentation_file,
     patient_id |-> patient_id, description |-> description, method |-> method,
     timestamp |-> Isoformat(t), hash |-> HashObject(segmentation_file)]

\* Mutant: the list is set to [] whether or not the original has one.
AppendDerivative_Reset(derivatives, original_id, version_id) ==
    DictSet(derivatives, original_id, <<version_id>>)

\* Mutant: the original's id is appended instead of the version's.
AppendDerivative_WrongId(derivatives, original_id, version_id) ==
    LET old == IF original_id \in DOMAIN derivatives
               THEN derivatives[original_id] ELSE <<>>
    IN  DictSet(derivatives, original_id, Append(old, original_id))

\* Mutant: the new id is inserted at the front of the list.
AppendDerivative_Prepend(derivatives, original_id, version_id) ==
    LET old == IF original_id \in DOMAIN derivatives
               THEN derivatives[original_id] ELSE <<>>
    IN  DictSet(derivatives, original_id, <<version_id>> \o old)

\* if original_id not in metadata['derivatives']: ... = []; then .append(version_id)
AppendDerivative(derivatives, original_id, version_id) ==
    LET old == IF original_id \in DOMAIN derivatives
               THEN derivatives[original_id] ELSE <<>>
    IN  DictSet(derivatives, original_id, Append(old, version_id))

\* with open(metadata path, 'r') as f: json.load(f)
\* "ok" with the document, FileNotFoundError when the file is absent,
\* JSONDecodeError when it does not hold a JSON document.
LoadError(content) ==
    CASE content.kind = "absent" -> "FileNotFoundError"
      [] content.kind = "json" -> "ok"
      [] OTHER -> "JSONDecodeError"

\* with open(metadata path, 'w') as f: json.dump(metadata, f): mode 'w'
\* truncates the file when it is opened, the dump then writes chunk by chunk.
\* wr says how far the write gets.
WriteOutcomes == {"ok", "cut_at_open", "cut_in_dump"}
WriteFile(metadata, wr) ==
    CASE wr = "ok" -> Json(metadata)
      [] wr = "cut_at_open" -> Empty
      [] OTHER -> Truncated

\* Mutant: `git add` is run without a path, as __add_staging_to_git runs it.
GitAdd_NoPaths(paths, git_ok) == [raises |-> "", paths |-> <<>>]

\* Mutant: `git add` is run with check=True.
GitAdd_Checked(paths, git_ok) ==
    [raises |-> IF git_ok THEN "" ELSE "CalledProcessError", paths |-> paths]

\* subprocess.run(['git', 'add', <file>, self.metadata_file], cwd=...): run
\* without check=True, so the exit status (git_ok: zero) is returned in the
\* CompletedProcess, which the caller drops; nothing is raised.
GitAdd(paths, git_ok) == [raises |-> "", paths |-> paths]

\* Mutant: the original is looked up before the file is tested.
DerivativeRejection_LookupFirst(content, original_id, segmentation_file) ==
    IF LoadError(content) # "ok" THEN LoadError(content)
    ELSE IF original_id \notin DOMAIN content.doc.original_images
    THEN "original_not_found"
    ELSE IF segmentation_file \notin ExistingPaths THEN "file_not_found"
    ELSE ""

\* The tests at the head of register_derivatives_images, in their order:
\* os.path.exists(segmentation_file), the load of the metadata file,
\* original_id in metadata['original_images'].  "" when all pass.
DerivativeRejection(content, original_id, segmentation_file) ==
    IF segmentation_file \notin ExistingPaths THEN "file_not_found"
    ELSE IF LoadError(content) # "ok" THEN LoadError(content)
    ELSE IF original_id \notin DOMAIN content.doc.original_images
    THEN "original_not_found"
    ELSE ""

\* What one call leaves behind: its outcome and, when it succeeded, its
\* arguments, the value it returned, the staging request it made and what it
\* printed.
NoCall ==
    [op |-> "none", res |-> "none", ret |-> <<>>, args |-> <<>>,
     staged |-> <<>>, stage_req |-> FALSE, stage_ok |-> FALSE,
     listing |-> <<>>, out |-> ""]
Call(op, res) == [NoCall EXCEPT !.op = op, !.res = res]

\* __add_staging_to_git: subprocess.run(args=['git', 'add'], cwd=...).  The
\* paths the request names: none.
add_staging_to_git == <<>>

\* set_metadata, given what json.dump(base_metadata, f) did (what it raised,
\* what it left in the file opened with mode 'w'): the content of the file
\* afterwards and the call's record.  The staging request is only reached
\* when the dump returned.
set_metadata(dumped) ==
    IF dumped.raises # ""
    THEN [content |-> dumped.written, call |-> Call("set_metadata", dumped.raises)]
    ELSE [content |-> dumped.written,
          call |-> [Call("set_metadata", "ok") EXCEPT
                       !.staged = add_staging_to_git,
                       !.stage_req = TRUE,
                       !.stage_ok = TRUE]]

\* register_original_image as a function of what the metadata file holds:
\* the content of the file afterwards and the call's record.
register_original_image(content, image_file, patient_id, study_info, t, wr, git_ok) ==
    LET args == <<image_file, patient_id, study_info>>
        op == "register_original"
        original_id == NewOriginalId(patient_id, t)
    IN  IF image_file \notin ExistingPaths
        THEN [content |-> content, call |-> Call(op, "file_not_found")]
        ELSE IF LoadError(content) # "ok"
        THEN [content |-> content, call |-> Call(op, LoadError(content))]
        ELSE IF ~Hashable(image_file)
        THEN [content |-> content, call |-> Call(op, "CalledProcessError")]
        ELSE LET metadata ==
                     [content.doc EXCEPT !.original_images =
                         DictSet(@, original_id,
                                 OriginalEntry(image_file, patient_id, study_info, t))]
             IN  IF wr # "ok"
                 THEN [content |-> WriteFile(metadata, wr),
                       call |-> Call(op, "IOError")]
                 ELSE IF GitAdd(<<image_file, metadata_file>>, git_ok).raises # ""
                 THEN [content |-> WriteFile(metadata, wr),
                       call |-> Call(op, GitAdd(<<image_file, metadata_file>>,
                                                git_ok).raises)]
                 ELSE [content |-> WriteFile(metadata, wr),
                       call |-> [Call(op, "ok") EXCEPT
                                    !.args = args,
                                    !.ret = original_id,
                                    !.staged = GitAdd(<<image_file, metadata_file>>,
                                                      git_ok).paths,
                                    !.stage_req = TRUE,
                                    !.stage_ok = git_ok]]

\* register_derivatives_images, likewise.
register_derivatives_images(content, original_id, segmentation_file, description, method, t, wr, git_ok) ==
    LET args == <<original_id, segmentation_file, description, method>>
        op == "register_derivative"
    IN  IF DerivativeRejection(content, original_id, segmentation_file) # ""
        THEN [content |-> content,
              call |-> Call(op, DerivativeRejection(content, original_id,
                                                    segmentation_file))]
        ELSE IF ~Hashable(segmentation_file)
        THEN [content |-> content, call |-> Call(op, "CalledProcessError")]
        ELSE LET patient_id == content.doc.original_images[original_id].patient_id
                 version_id == NewVersionId(original_id, content.doc)
                 metadata ==
                     [content.doc EXCEPT
                         !.derivatives = AppendDerivative(@, original_id, version_id),
                         !.versions =
                             DictSet(@, version_id,
                                     VersionEntry(original_id, segmentation_file,
                                                  patient_id, description, method, t))]
             IN  IF wr # "ok"
                 THEN [content |-> WriteFile(metadata, wr),
                       call |-> Call(op, "IOError")]
                 ELSE IF GitAdd(<<segmentation_file, metadata_file>>, git_ok).raises # ""
                 THEN [content |-> WriteFile(metadata, wr),
                       call |-> Call(op, GitAdd(<<segmentation_file, metadata_file>>,
                                                git_ok).raises)]
                 ELSE [content |-> WriteFile(metadata, wr),
                       call |-> [Call(op, "ok") EXCEPT
                                    !.args = args,
                                    !.ret = version_id,
                                    !.staged = GitAdd(<<segmentation_file, metadata_file>>,
                                                      git_ok).paths,
                                    !.stage_req = TRUE,
                                    !.stage_ok = git_ok]]

\* Mutant: the list is walked from its end.
ListedDerivatives_Reversed(metadata, original_id) ==
    IF original_id \in DOMAIN metadata.derivatives
    THEN [i \in 1..Len(metadata.derivatives[original_id]) |->
             metadata.derivatives[original_id]
                 [Len(metadata.derivatives[original_id]) + 1 - i]]
    ELSE <<>>

\* if original_id in metadata['derivatives']: for segmentation_id in
\* metadata['derivatives'][original_id]; nothing is listed otherwise.
ListedDerivatives(metadata, original_id) ==
    IF original_id \in DOMAIN metadata.derivatives
    THEN metadata.derivatives[original_id] ELSE <<>>

\* Mutant: the originals are not filtered by patient.
PatientOriginals_All(metadata, patient_id) == DOMAIN metadata.original_images

\* {key: value for key, value in metadata['original_images'].items()
\*  if value['patient_id'] == patient_id}
PatientOriginals(metadata, patient_id) ==
    {o \in DOMAIN metadata.original_images :
        metadata.original_images[o].patient_id = patient_id}

\* show_derivatives_images: the ids it prints, in the order it prints them.
\* metadata['versions'][segmentation_id] raises KeyError for an id that is
\* listed but not stored.
show_derivatives_images(content, original_id) ==
    LET op == "show_derivatives"
    IN  IF LoadError(content) # "ok"
        THEN Call(op, LoadError(content))
        ELSE IF original_id \notin DOMAIN content.doc.original_images
        THEN Call(op, "original_not_found")
        ELSE LET ids == ListedDerivatives(content.doc, original_id)
             IN  IF \E i \in 1..Len(ids) : ids[i] \notin DOMAIN content.doc.versions
                 THEN Call(op, "KeyError")
                 ELSE [Call(op, "ok") EXCEPT !.args = <<original_id>>, !.listing = ids]

\* show_patient_tree: the originals it prints, each with the ids printed
\* under it.
show_patient_tree(content, patient_id) ==
    LET op == "show_patient_tree"
    IN  IF LoadError(content) # "ok"
        THEN Call(op, LoadError(content))
        ELSE LET metadata == content.doc
                 originals == PatientOriginals(metadata, patient_id)
                 ids(o) == ListedDerivatives(metadata, o)
             IN  IF \E o \in originals : \E i \in 1..Len(ids(o)) :
                        ids(o)[i] \notin DOMAIN metadata.versions
                 THEN Call(op, "KeyError")
                 ELSE [Call(op, "ok") EXCEPT
                          !.args = <<patient_id>>,
                          !.listing = {<<o, ids(o)>> : o \in originals}]

\* show_history: `git log` first, then the registered versions.
show_history(content, git_ok) ==
    LET op == "show_history"
    IN  IF ~git_ok
        THEN Call(op, "CalledProcessError")
        ELSE IF LoadError(content) # "ok"
        THEN Call(op, LoadError(content))
        ELSE [Call(op, "ok") EXCEPT
                 !.listing = {<<v, content.doc.versions[v].patient_id,
                                content.doc.versions[v].description>> :
                              v \in DOMAIN content.doc.versions}]

\* nib.load(file).get_fdata(): the voxels of an image file, as floats.
Voxels(path) ==
    IF path = "a.nii" THEN <<"0", "1", "1">> ELSE <<"0", "nan", "1">>

\* x != y on floats: a NaN differs from everything, itself included.
NotEqual(x, y) == x = "nan" \/ y = "nan" \/ x # y

\* np.sum(image1 != image2)
DifferentVoxels(image1, image2) ==
    Cardinality({i \in 1..Len(image1) : NotEqual(image1[i], image2[i])})

\* similarity = 1 - (diff / total_voxels), as the fraction
\* <<numerator, denominator>>; it is 1.0 exactly when the two are equal.
Similarity(diff, total_voxels) == <<total_voxels - diff, total_voxels>>

\* (version1 or version2): the first operand unless it is the empty string.
Or(version1, version2) == IF version1 # <<>> THEN version1 ELSE version2

\* The test of line 297: (version1 or version2) not in metadata['versions']
VersionsMissing(version1, version2, versions) ==
    Or(version1, version2) \notin DOMAIN versions

\* Mutant: file2 is looked up under version1.
VersionFiles_SameKey(versions, version1, version2) ==
    IF version1 \notin DOMAIN versions
    THEN [raises |-> "KeyError"]
    ELSE [raises |-> "", file1 |-> versions[version1].file,
          file2 |-> versions[version1].file]

\* file1 = metadata['versions'][version1]['file'] and the same for version2:
\* indexing with a key that is not in the dictionary raises KeyError.
VersionFiles(versions, version1, version2) ==
    IF version1 \notin DOMAIN versions \/ version2 \notin DOMAIN versions
    THEN [raises |-> "KeyError"]
    ELSE [raises |-> "", file1 |-> versions[version1].file,
          file2 |-> versions[version2].file]

\* compare_versions: the content of the metadata file afterwards and the
\* call's record; `listing` is <<different voxels, total voxels, similarity>>
\* when a report was produced, `out` the path the report was written to.
compare_versions(content, version1, version2, output_file) ==
    LET op == "compare"
        same(c) == [content |-> content, call |-> c]
    IN  IF LoadError(content) # "ok"
        THEN same(Call(op, LoadError(content)))
        ELSE IF VersionsMissing(version1, version2, content.doc.versions)
        THEN same(Call(op, "versions_missing"))
        ELSE IF VersionFiles(content.doc.versions, version1, version2).raises # ""
        THEN same(Call(op, VersionFiles(content.doc.versions, version1, version2).raises))
        ELSE LET files == VersionFiles(content.doc.versions, version1, version2)
                 image1 == Voxels(files.file1)
                 image2 == Voxels(files.file2)
                 c == [Call(op, "ok") EXCEPT
                          !.listing = <<DifferentVoxels(image1, image2), Len(image1),
                                        Similarity(DifferentVoxels(image1, image2),
                                                   Len(image1))>>,
                          !.out = output_file]
             IN  [content |-> IF output_file = metadata_file
                              THEN ReportText ELSE content,
                  call |-> c]

\* Command lines a user types that are none of the shell's own commands, as
\* command.split() cuts them: a sequence of words.  An argument of the
\* process that is run is a sequence of words too (the words joined by single
\* spaces), so that a typed word w is the argument <<w>>.
PassThroughCommands ==
    {<<"status">>, <<"git", "log">>, <<"commit", "-a", "-m", "fix">>}
Platforms == {"posix", "nt"}

\* ' '.join(words)
Join(words) == words

\* [<<w>> for w in words]
Words(words) == [i \in 1..Len(words) |-> <<words[i]>>]

\* execute_command on a command that is not the shell's own: 'git <command>'
\* hands command_parts[1:] to _execute_git_command, anything else hands
\* command_parts.
GitArgs(command_parts) ==
    IF command_parts[1] = "git" /\ Len(command_parts) > 1
    THEN Tail(command_parts) ELSE command_parts

\* _execute_git_command: the list handed to subprocess.run.  A commit is
\* rebuilt as ['git', 'commit', '-m', message], message being
\* ' '.join(git_args[2:]) when '-m' is among the arguments and '' otherwise.
GitCommandLine(git_args) ==
    IF Len(git_args) > 0 /\ git_args[1] = "commit"
    THEN LET message == IF \E i \in 1..Len(git_args) : git_args[i] = "-m"
                        THEN Join(SubSeq(git_args, 3, Len(git_args)))
                        ELSE <<>>
         IN  <<<<"git">>, <<"commit">>, <<"-m">>, message>>
    ELSE <<<<"git">>>> \o Words(git_args)

\* subprocess.run(<list>, shell=True): on POSIX the first item is the command
\* line given to /bin/sh and the other items become the shell's own
\* positional parameters; on Windows the list is joined to one command line.
RunShellTrue(argv, os_name) ==
    IF os_name = "posix" THEN <<argv[1]>> ELSE argv

\* A command passed on to git: the arguments git is run with, and whether it
\* exits with zero (`git` without a command prints its usage and exits 1;
\* check=True then raises CalledProcessError, which is printed).
execute_git_command(command_parts, os_name) ==
    LET ran == RunShellTrue(GitCommandLine(GitArgs(command_parts)), os_name)
    IN  [Call("git", IF Len(ran) > 1 THEN "ok" ELSE "CalledProcessError") EXCEPT
            !.args = command_parts, !.listing = ran]

\* --------------------------------------------------------------- state
VARIABLES
    file,     \* file[d]: what <d>/dummy_metadata.json holds
    shell,    \* "down": no shell process; "up": the shell is prompting
    cwd,      \* self.current_directory
    clock,    \* the system clock: [minute, second]
    last,     \* the record of the last call
    hist,     \* hist[d]: what the successful registrations in d returned so far
    race      \* the registrations of the shell processes that run side by side

vars == <<file, shell, cwd, clock, last, hist, race>>

\* History of one working directory: the ids the successful calls returned,
\* how many calls returned them, whether a call returned an id that an
\* earlier call had returned, and whether a call stored its entry under a key
\* that was already in the document.
NoHistory ==
    [originals |-> {}, n_originals |-> 0, versions |-> {}, n_versions |-> 0,
     repeated_original |-> FALSE, repeated_version |-> FALSE,
     overwritten_version |-> FALSE]
Registrations ==
    hist["d1"].n_originals + hist["d1"].n_versions
        + hist["d2"].n_originals + hist["d2"].n_versions

\* Shell processes running in one working directory.  Of each: where its
\* registration stands ("idle", "loaded": the metadata file was read and the
\* document changed in memory, "done": the document was written back and the
\* id returned), the result the registration computes from what it loaded,
\* and what it loaded.  overlap: when the latest load happened, the other
\* process stood between its load and its save.  saver: the process that
\* wrote the file last (0: none).
Procs == {1, 2}
Other(p) == 3 - p
NoResult == [content |-> Absent, call |-> NoCall]
NoRace ==
    [procs |-> [p \in Procs |-> [pc |-> "idle", r |-> NoResult, loaded |-> Absent]],
     overlap |-> FALSE, saver |-> 0]
Pending == Cardinality({p \in Procs : race.procs[p].pc = "loaded"})

\* A working directory either holds a metadata document with the empty
\* collections already (d1 may, e.g. one that was checked in), or none; d2 is
\* a directory that was never used.
Init ==
    /\ file \in {[d \in Dirs |-> IF d = "d1" THEN c ELSE Absent] :
                    c \in {Absent, Json(BaseMetaData)}}
    /\ shell = "down"
    /\ cwd = "d1"
    /\ clock = [minute |-> 0, second |-> 0]
    /\ last = NoCall
    /\ hist = [d \in Dirs |-> NoHistory]
    /\ race = NoRace

\* The directory the shell is launched in.
LaunchDirs == {"d1"}

\* VersioningShell(): __init__ and __verify_path_existence, started in d.
\* set_metadata opens the file for writing and dumps utils.BaseMetaData; the
\* dump raises, the constructor does not return and no shell runs.
Start(d) ==
    /\ shell = "down"
    /\ cwd' = d
    /\ IF file[d].kind = "absent"
       THEN /\ file' = [file EXCEPT ![d] = set_metadata(DumpBaseMetaData).content]
            /\ shell' = IF set_metadata(DumpBaseMetaData).call.res = "ok"
                        THEN "up" ELSE "down"
            /\ last' = set_metadata(DumpBaseMetaData).call
       ELSE /\ file' = file
            /\ shell' = "up"
            /\ last' = Call("init", "ok")
    /\ UNCHANGED <<clock, hist, race>>

\* 'cd <dir>' in run(): os.chdir and self.current_directory = os.getcwd();
\* nothing else.
Cd(d) ==
    /\ shell = "up"
    /\ d # cwd
    /\ cwd' = d
    /\ last' = NoCall
    /\ UNCHANGED <<file, shell, clock, hist, race>>

\* Time passes.
Tick ==
    /\ \/ /\ clock.second + 1 \in Seconds
          /\ clock' = [clock EXCEPT !.second = @ + 1]
       \/ /\ clock.minute + 1 \in Minutes
          /\ clock' = [minute |-> clock.minute + 1, second |-> 0]
    /\ UNCHANGED <<file, shell, cwd, last, hist, race>>


RegisterOriginal(image_file, patient_id, study_info, wr, git_ok) ==
    /\ shell = "up"
    /\ \E r \in {register_original_image(file[cwd], image_file, patient_id,
                                         study_info, clock, wr, git_ok)} :
        /\ r.call.res = "ok" => Registrations < MaxRegistrations
        /\ file' = [file EXCEPT ![cwd] = r.content]
        /\ last' = r.call
        /\ hist' = IF r.call.res = "ok"
                   THEN [hist EXCEPT
                            ![cwd].originals = @ \cup {r.call.ret},
                            ![cwd].n_originals = @ + 1,
                            ![cwd].repeated_original =
                                @ \/ r.call.ret \in hist[cwd].originals]
                   ELSE hist
        /\ UNCHANGED <<shell, cwd, clock, race>>

\* Original ids a user can type: the registered ones and one that is not.
UnknownOriginal == NewOriginalId(<<"P9">>, [minute |-> 0, second |-> 0])
OriginalIds ==
    {UnknownOriginal} \cup
    (IF IsDoc(file[cwd]) THEN DOMAIN file[cwd].doc.original_images ELSE {})

RegisterDerivative(original_id, segmentation_file, description, method, wr, git_ok) ==
    /\ shell = "up"
    /\ \E r \in {register_derivatives_images(file[cwd], original_id, segmentation_file,
                                             description, method, clock, wr, git_ok)} :
        /\ r.call.res = "ok" => Registrations < MaxRegistrations
        /\ file' = [file EXCEPT ![cwd] = r.content]
        /\ last' = r.call
        /\ hist' = IF r.call.res = "ok"
                   THEN [hist EXCEPT
                            ![cwd].versions = @ \cup {r.call.ret},
                            ![cwd].n_versions = @ + 1,
                            ![cwd].repeated_version =
                                @ \/ r.call.ret \in hist[cwd].versions,
                            ![cwd].overwritten_version =
                                @ \/ r.call.ret \in DOMAIN file[cwd].doc.versions]
                   ELSE hist
        /\ UNCHANGED <<shell, cwd, clock, race>>

\* Version ids a user can type: the registered ones, one that is not, and
\* the empty string.
UnknownVersion == <<"SEG", "_", "X", "_", "1">>
VersionIds ==
    {UnknownVersion, <<>>} \cup
    (IF IsDoc(file[cwd]) THEN DOMAIN file[cwd].doc.versions ELSE {})

\* The pairs of ids compare is run on: a version with itself, with the
\* version registered first or with an id that is not registered, and an
\* empty first id with any second one.
FirstVersions ==
    {v \in VersionIds \ {UnknownVersion, <<>>} : v[Len(v)] = "1"}
ComparePairs ==
    {<<v1, v2>> \in VersionIds \X VersionIds :
        v2 \in {v1, UnknownVersion} \cup FirstVersions \/ v1 = <<>>}

\* Output paths a user can give to compare; "" is none.  The path is only
\* read once both ids are known, so it is varied only then.
Outputs == {"", "report.txt", metadata_file}
OutputsFor(version1, version2) ==
    IF {version1, version2} \subseteq VersionIds \ {UnknownVersion, <<>>}
    THEN Outputs ELSE {"report.txt"}

\* Exit statuses of `git add` (TRUE: zero).  It only runs after a file that
\* can be hashed was registered, so it is varied only for such a file.
GitOutcomes(path) == IF Hashable(path) THEN BOOLEAN ELSE {TRUE}

\* What is printed is not kept: of a query the state records the outcome.
Outcome(call) == Call(call.op, call.res)

ShowDerivatives(original_id) ==
    /\ shell = "up"
    /\ last' = Outcome(show_derivatives_images(file[cwd], original_id))
    /\ UNCHANGED <<file, shell, cwd, clock, hist, race>>

ShowPatientTree(patient_id) ==
    /\ shell = "up"
    /\ last' = Outcome(show_patient_tree(file[cwd], patient_id))
    /\ UNCHANGED <<file, shell, cwd, clock, hist, race>>

ShowHistory(git_ok) ==
    /\ shell = "up"
    /\ last' = Outcome(show_history(file[cwd], git_ok))
    /\ UNCHANGED <<file, shell, cwd, clock, hist, race>>

Compare(version1, version2, output_file) ==
    /\ shell = "up"
    /\ \E r \in {compare_versions(file[cwd], version1, version2, output_file)} :
        /\ file' = [file EXCEPT ![cwd] = r.content]
        /\ last' = [Outcome(r.call) EXCEPT !.out = r.call.out]
        /\ UNCHANGED <<shell, cwd, clock, hist, race>>

\* A command that is not the shell's own.
PassThrough(command_parts, os_name) ==
    /\ shell = "up"
    /\ last' = execute_git_command(command_parts, os_name)
    /\ UNCHANGED <<file, shell, cwd, clock, hist, race>>

Next ==
    \/ \E d \in LaunchDirs : Start(d)
    \/ \E d \in Dirs : Cd(d)
    \/ Tick
    \/ \E rq \in OriginalRequests : \E g \in GitOutcomes(rq[1]) :
          RegisterOriginal(rq[1], rq[2], rq[3], "ok", g)
    \/ \E o \in OriginalIds, rq \in DerivativeRequests : \E g \in GitOutcomes(rq[1]) :
          RegisterDerivative(o, rq[1], rq[2], rq[3], "ok", g)
    \/ \E o \in OriginalIds : ShowDerivatives(o)
    \/ \E p \in Patients \cup {<<"P9">>} : ShowPatientTree(p)
    \/ \E g \in BOOLEAN : ShowHistory(g)
    \/ \E pair \in ComparePairs : \E out \in OutputsFor(pair[1], pair[2]) :
          Compare(pair[1], pair[2], out)

Spec == Init /\ [][Next]_vars

\* The metadata commands together with the commands the shell hands to git,
\* which leave the metadata file alone.
NextShell ==
    \/ Next
    \/ \E c \in PassThroughCommands, os \in Platforms : PassThrough(c, os)

SpecShell == Init /\ [][NextShell]_vars

\* ------------------------------------------------- two shell processes
\* Two shells were launched in d1, which holds a metadata document.  Each
\* runs registrations; a registration reads the metadata file, changes the
\* document in memory and writes it back, and the other process can run
\* between the read and the write.
InitRace ==
    /\ file = [d \in Dirs |-> IF d = "d1" THEN Json(BaseMetaData) ELSE Absent]
    /\ shell = "up"
    /\ cwd = "d1"
    /\ clock = [minute |-> 0, second |-> 0]
    /\ last = NoCall
    /\ hist = [d \in Dirs |-> NoHistory]
    /\ race = NoRace

\* Mutant: the write keeps the entries that are in the file and not in the
\* document in memory.
SaveOver_Merge(current, content) ==
    IF IsDoc(current) /\ IsDoc(content)
    THEN Json([content.doc EXCEPT
                  !.original_images = @ @@ current.doc.original_images,
                  !.derivatives = @ @@ current.doc.derivatives,
                  !.versions = @ @@ current.doc.versions])
    ELSE content

\* with open(metadata path, 'w') as f: json.dump(metadata, f): the file is
\* replaced by the dump of the document in memory, whatever it holds now.
SaveOver(current, content) == content

\* The part of a registration up to its write: r is the whole registration
\* computed from the file as it is now.  A registration that fails returns
\* at once; one that will succeed stands before its write.
RaceLoad(p, r) ==
    /\ race.procs[p].pc # "loaded"
    /\ r.call.res = "ok" => Registrations + Pending < MaxRaceRegistrations
    /\ IF r.call.res = "ok"
       THEN /\ race' = [race EXCEPT
                            !.procs[p] = [pc |-> "loaded", r |-> r,
                                          loaded |-> file[cwd]],
                            !.overlap = race.procs[Other(p)].pc = "loaded"]
            /\ last' = last
       ELSE /\ race' = race
            /\ last' = r.call
    /\ UNCHANGED <<file, shell, cwd, clock, hist>>

RaceLoadOriginal(p, image_file, patient_id, study_info, git_ok) ==
    RaceLoad(p, register_original_image(file[cwd], image_file, patient_id,
                                        study_info, clock, "ok", git_ok))

RaceLoadDerivative(p, original_id, segmentation_file, description, method, git_ok) ==
    RaceLoad(p, register_derivatives_images(file[cwd], original_id, segmentation_file,
                                            description, method, clock, "ok", git_ok))

\* The rest of the registration: the write, `git add`, the return of the id.
RaceSave(p) ==
    /\ race.procs[p].pc = "loaded"
    /\ file' = [file EXCEPT ![cwd] = SaveOver(file[cwd], race.procs[p].r.content)]
    /\ last' = race.procs[p].r.call
    /\ hist' = IF race.procs[p].r.call.op = "register_original"
               THEN [hist EXCEPT ![cwd].n_originals = @ + 1]
               ELSE [hist EXCEPT ![cwd].n_versions = @ + 1]
    /\ race' = [race EXCEPT !.procs[p].pc = "done", !.saver = p]
    /\ UNCHANGED <<shell, cwd, clock>>

\* The registrations that race fall within one minute of the clock.
NextRace ==
    \/ \E p \in Procs, rq \in OriginalRequests :
          RaceLoadOriginal(p, rq[1], rq[2], rq[3], TRUE)
    \/ \E p \in Procs, o \in OriginalIds, rq \in DerivativeRequests :
          RaceLoadDerivative(p, o, rq[1], rq[2], rq[3], TRUE)
    \/ \E p \in Procs : RaceSave(p)

SpecRace == InitRace /\ [][NextRace]_vars

\* The same program on a file system whose writes can fail part-way (the
\* disk fills up, the device fails): the dump of a registration stops after
\* the file was opened, or after a part of the document was written.
WriteFails ==
    \/ \E rq \in OriginalRequests, wr \in WriteOutcomes \ {"ok"} :
          RegisterOriginal(rq[1], rq[2], rq[3], wr, TRUE)
    \/ \E o \in OriginalIds, rq \in DerivativeRequests, wr \in WriteOutcomes \ {"ok"} :
          RegisterDerivative(o, rq[1], rq[2], rq[3], wr, TRUE)

NextFault == Next \/ WriteFails

SpecFault == Init /\ [][NextFault]_vars

\* ================================================================ claims
\* The documents that are persisted, and a directory's document.
Docs == {file[d].doc : d \in {e \in Dirs : IsDoc(file[e])}}
IsPrefix(s, t) == Len(s) <= Len(t) /\ SubSeq(t, 1, Len(s)) = s
Succeeded(op) == last.op = op /\ last.res = "ok"

\* C1: referential integrity.  In every persisted document each version's
\* original_id is a key of original_images and each id listed under a key of
\* derivatives is a key of versions.
C1_ReferentialIntegrity ==
    \A m \in Docs :
        /\ \A v \in DOMAIN m.versions :
              m.versions[v].original_id \in DOMAIN m.original_images
        /\ \A o \in DOMAIN m.derivatives : \A i \in 1..Len(m.derivatives[o]) :
              m.derivatives[o][i] \in DOMAIN m.versions

\* Two originals have derivatives and the last call was a registration that
\* was rejected.
C1_Witness ==
    /\ \E m \in Docs : Cardinality(DOMAIN m.derivatives) >= 2
    /\ last.op = "register_derivative"
    /\ last.res = "original_not_found"

\* C2: every successful register_original returns an id that no earlier
\* successful call returned, and the document then holds under that id the
\* supplied file path, patient_id and study_info.
C2_FreshOriginalId ==
    /\ \A d \in Dirs : ~hist[d].repeated_original
    /\ Succeeded("register_original") =>
          /\ IsDoc(file[cwd])
          /\ last.ret \in DOMAIN file[cwd].doc.original_images
          /\ LET e == file[cwd].doc.original_images[last.ret]
             IN  <<e.file, e.patient_id, e.study_info>> = last.args

\* C3: version numbering is global.  The k-th successful register_derivative
\* of a directory returns SEG_<original_id>_k, k being the number of versions
\* then in the document; no version id is returned twice and no entry of
\* versions is overwritten.
C3_GlobalVersionNumbering ==
    /\ \A d \in Dirs : ~hist[d].repeated_version /\ ~hist[d].overwritten_version
    /\ Succeeded("register_derivative") =>
          /\ last.ret = <<"SEG", "_">> \o last.args[1] \o
                            <<"_", ToString(hist[cwd].n_versions)>>
          /\ IsDoc(file[cwd])
          /\ Cardinality(DOMAIN file[cwd].doc.versions) = hist[cwd].n_versions

\* The second version was just registered, under another original than the
\* first.
C3_Witness ==
    /\ Succeeded("register_derivative")
    /\ hist[cwd].n_versions = 2
    /\ \E v \in DOMAIN file[cwd].doc.versions :
          file[cwd].doc.versions[v].original_id # last.args[1]

\* C4: in every persisted document each version's patient_id is the
\* patient_id of the original stored under its original_id.
C4_PatientOfParent ==
    \A m \in Docs : \A v \in DOMAIN m.versions :
        /\ m.versions[v].original_id \in DOMAIN m.original_images
        /\ m.versions[v].patient_id =
               m.original_images[m.versions[v].original_id].patient_id

\* An original that has a version was just registered again under its id.
C4_Witness ==
    /\ Succeeded("register_original")
    /\ IsDoc(file[cwd])
    /\ \E v \in DOMAIN file[cwd].doc.versions :
          file[cwd].doc.versions[v].original_id = last.ret

\* C5: register_derivative with an existing file fails with the not-found
\* error exactly when original_id is not a key of original_images; when it
\* succeeds the returned id is the last element of derivatives[original_id]
\* and show-derivatives lists the earlier derivatives followed by it.
C5_RegisterDerivative ==
    (shell = "up" /\ IsDoc(file[cwd])) =>
        \A o \in OriginalIds, rq \in DerivativeRequests :
            rq[1] \in ExistingPaths =>
                \A r \in {register_derivatives_images(file[cwd], o, rq[1], rq[2],
                                                       rq[3], clock, "ok", TRUE)} :
                    /\ r.call.res = "original_not_found"
                        <=> o \notin DOMAIN file[cwd].doc.original_images
                    /\ r.call.res = "ok" =>
                          \A before \in {show_derivatives_images(file[cwd], o)},
                             after \in {show_derivatives_images(r.content, o)} :
                              LET ids == r.content.doc.derivatives[o]
                              IN  /\ ids[Len(ids)] = r.call.ret
                                  /\ before.res = "ok" /\ after.res = "ok"
                                  /\ after.listing = Append(before.listing, r.call.ret)

\* A derivative was just registered for an original that had one already.
C5_Witness ==
    /\ Succeeded("register_derivative")
    /\ Len(file[cwd].doc.derivatives[last.args[1]]) >= 2
    /\ file[cwd].doc.derivatives[last.args[1]][2] = last.ret

\* C6: an entry of original_images, once stored, is never changed or removed.
C6_OriginalsImmutable ==
    [][\A d \in Dirs : IsDoc(file[d]) =>
          \A o \in DOMAIN file[d].doc.original_images :
              /\ IsDoc(file'[d])
              /\ o \in DOMAIN file'[d].doc.original_images
              /\ file'[d].doc.original_images[o] = file[d].doc.original_images[o]]_vars

\* C7: an entry of versions, once stored, is never changed or removed, and
\* each list of derivatives only grows at its end.
C7_VersionsAppendOnly ==
    [][\A d \in Dirs : IsDoc(file[d]) =>
          /\ \A v \in DOMAIN file[d].doc.versions :
                /\ IsDoc(file'[d])
                /\ v \in DOMAIN file'[d].doc.versions
                /\ file'[d].doc.versions[v] = file[d].doc.versions[v]
          /\ \A o \in DOMAIN file[d].doc.derivatives :
                /\ IsDoc(file'[d])
                /\ o \in DOMAIN file'[d].doc.derivatives
                /\ IsPrefix(file[d].doc.derivatives[o], file'[d].doc.derivatives[o])]_vars

\* C8: compare fails with a not-found error when version1 is not a key of
\* versions and when version2 is not; it then produces no report and writes
\* no file.
C8_CompareChecksBothIds ==
    (shell = "up" /\ IsDoc(file[cwd])) =>
        \A v1 \in VersionIds, v2 \in VersionIds, out \in Outputs :
            (v1 \notin DOMAIN file[cwd].doc.versions
                \/ v2 \notin DOMAIN file[cwd].doc.versions) =>
                \A r \in {compare_versions(file[cwd], v1, v2, out)} :
                    /\ r.call.res \in {"versions_missing", "KeyError"}
                    /\ r.call.listing = <<>>
                    /\ r.call.out = ""
                    /\ r.content = file[cwd]

\* compare was just run with a registered version1 and an unknown version2.
C8_Witness ==
    /\ last.op = "compare"
    /\ last.res = "KeyError"
    /\ IsDoc(file[cwd])
    /\ \E v1 \in DOMAIN file[cwd].doc.versions :
          compare_versions(file[cwd], v1, UnknownVersion, "report.txt").call.res
              = "KeyError"

\* C9: on first use of a working directory set_metadata leaves the document
\* with the five empty collections, and the shell runs.
C9_FirstUseCreatesEmptyDocument ==
    last.op = "set_metadata" =>
        /\ file[cwd] = Json(BaseMetaData)
        /\ shell = "up"

\* C10: the metadata file never holds an empty or a truncated document.
C10_NoHalfWrittenFile ==
    \A d \in Dirs : file[d].kind \notin {"empty", "truncated"}

\* C11: show-derivatives fails with the not-found error exactly when
\* original_id is not a key of original_images; for a known original without
\* derivatives it lists nothing and does not fail; otherwise it lists exactly
\* the ids of derivatives[original_id], in that order.
C11_ListDerivatives ==
    (shell = "up" /\ IsDoc(file[cwd])) =>
        \A o \in OriginalIds :
            \A c \in {show_derivatives_images(file[cwd], o)}, m \in {file[cwd].doc} :
                /\ c.res = "original_not_found" <=> o \notin DOMAIN m.original_images
                /\ o \in DOMAIN m.original_images =>
                      /\ c.res = "ok"
                      /\ o \notin DOMAIN m.derivatives => c.listing = <<>>
                      /\ o \in DOMAIN m.derivatives => c.listing = m.derivatives[o]

\* show-derivatives just succeeded on a document in which one original has
\* two derivatives and another has none.
C11_Witness ==
    /\ Succeeded("show_derivatives")
    /\ IsDoc(file[cwd])
    /\ \E o \in DOMAIN file[cwd].doc.derivatives :
          Len(file[cwd].doc.derivatives[o]) >= 2
    /\ \E o \in DOMAIN file[cwd].doc.original_images :
          o \notin DOMAIN file[cwd].doc.derivatives

\* C12: show-patient-tree lists exactly the originals whose patient_id is
\* the one asked for, each with all the ids of its derivatives list in the
\* list's order, and lists nothing, without failing, for a patient that has
\* no original.
C12_PatientTree ==
    (shell = "up" /\ IsDoc(file[cwd])) =>
        \A p \in Patients \cup {<<"P9">>} :
            \A c \in {show_patient_tree(file[cwd], p)}, m \in {file[cwd].doc} :
                /\ c.res = "ok"
                /\ {pair[1] : pair \in c.listing} =
                       {o \in DOMAIN m.original_images :
                           m.original_images[o].patient_id = p}
                /\ \A pair \in c.listing :
                       pair[2] = IF pair[1] \in DOMAIN m.derivatives
                                 THEN m.derivatives[pair[1]] ELSE <<>>
                /\ Cardinality(c.listing) = Cardinality({pair[1] : pair \in c.listing})

\* show-patient-tree just succeeded on a document that holds originals of two
\* patients, one of them with two derivatives.
C12_Witness ==
    /\ Succeeded("show_patient_tree")
    /\ IsDoc(file[cwd])
    /\ \A p \in Patients : \E o \in DOMAIN file[cwd].doc.original_images :
          file[cwd].doc.original_images[o].patient_id = p
    /\ \E o \in DOMAIN file[cwd].doc.derivatives :
          Len(file[cwd].doc.derivatives[o]) >= 2

\* C13: a registration whose file cannot be hashed (`git hash-object` exits
\* non-zero) still succeeds and persists the new entity: the original under
\* its id; the version under its id and that id at the end of the
\* derivatives list of its original.
C13_HashFailureKeepsMutation ==
    (shell = "up" /\ IsDoc(file[cwd])) =>
        /\ \A rq \in OriginalRequests :
              (rq[1] \in ExistingPaths /\ ~Hashable(rq[1])) =>
                  LET r == register_original_image(file[cwd], rq[1], rq[2], rq[3],
                                                   clock, "ok", TRUE)
                  IN  /\ r.call.res = "ok"
                      /\ IsDoc(r.content)
                      /\ NewOriginalId(rq[2], clock)
                             \in DOMAIN r.content.doc.original_images
        /\ \A o \in DOMAIN file[cwd].doc.original_images, rq \in DerivativeRequests :
              (rq[1] \in ExistingPaths /\ ~Hashable(rq[1])) =>
                  LET r == register_derivatives_images(file[cwd], o, rq[1], rq[2], rq[3],
                                                       clock, "ok", TRUE)
                      v == NewVersionId(o, file[cwd].doc)
                  IN  /\ r.call.res = "ok"
                      /\ IsDoc(r.content)
                      /\ v \in DOMAIN r.content.doc.versions
                      /\ o \in DOMAIN r.content.doc.derivatives
                      /\ r.content.doc.derivatives[o] # <<>>
                      /\ r.content.doc.derivatives[o]
                             [Len(r.content.doc.derivatives[o])] = v

\* C14: staging failure is not fatal.  A registration whose `git add` exits
\* non-zero returns its id, the persisted document holds the entity under
\* that id, and the document is the one persisted when `git add` succeeds.
C14_StagingFailureNotFatal ==
    /\ (last.op \in {"register_original", "register_derivative"}
            /\ last.stage_req /\ ~last.stage_ok) =>
          /\ last.res = "ok"
          /\ IsDoc(file[cwd])
          /\ last.ret \in DOMAIN file[cwd].doc.original_images
                             \cup DOMAIN file[cwd].doc.versions
    /\ shell = "up" =>
          /\ \A rq \in OriginalRequests :
                \A good \in {register_original_image(file[cwd], rq[1], rq[2], rq[3],
                                                      clock, "ok", TRUE)},
                   bad \in {register_original_image(file[cwd], rq[1], rq[2], rq[3],
                                                     clock, "ok", FALSE)} :
                    /\ bad.content = good.content
                    /\ bad.call.res = good.call.res
                    /\ bad.call.ret = good.call.ret
          /\ \A o \in OriginalIds, rq \in DerivativeRequests :
                \A good \in {register_derivatives_images(file[cwd], o, rq[1], rq[2],
                                                          rq[3], clock, "ok", TRUE)},
                   bad \in {register_derivatives_images(file[cwd], o, rq[1], rq[2],
                                                         rq[3], clock, "ok", FALSE)} :
                    /\ bad.content = good.content
                    /\ bad.call.res = good.call.res
                    /\ bad.call.ret = good.call.ret

\* A derivative was just registered and its `git add` exited non-zero.
C14_Witness ==
    /\ Succeeded("register_derivative")
    /\ last.stage_req /\ ~last.stage_ok
    /\ last.ret \in DOMAIN file[cwd].doc.versions

\* C20: a rejected registration changes nothing.  register_original with a
\* missing file, and register_derivative with a missing file or an unknown
\* original_id, leave the metadata file as it was, return no id and make no
\* staging request; a missing file is reported whether or not the
\* original_id is known, and whatever the metadata file holds.
C20_RejectedRegistrationChangesNothing ==
    shell = "up" =>
        /\ \A rq \in OriginalRequests : rq[1] \notin ExistingPaths =>
              \A r \in {register_original_image(file[cwd], rq[1], rq[2], rq[3],
                                                 clock, "ok", TRUE)} :
                  /\ r.call.res = "file_not_found"
                  /\ r.content = file[cwd]
                  /\ r.call.ret = <<>> /\ ~r.call.stage_req /\ r.call.staged = <<>>
        /\ \A o \in OriginalIds, rq \in DerivativeRequests :
              \A r \in {register_derivatives_images(file[cwd], o, rq[1], rq[2], rq[3],
                                                     clock, "ok", TRUE)},
                 unknown \in {IsDoc(file[cwd])
                                 /\ o \notin DOMAIN file[cwd].doc.original_images} :
                  /\ rq[1] \notin ExistingPaths => r.call.res = "file_not_found"
                  /\ (rq[1] \in ExistingPaths /\ unknown) =>
                         r.call.res = "original_not_found"
                  /\ (rq[1] \notin ExistingPaths \/ unknown) =>
                         /\ r.content = file[cwd]
                         /\ r.call.ret = <<>>
                         /\ ~r.call.stage_req /\ r.call.staged = <<>>

\* A register_derivative was just rejected for its missing file, in a
\* directory whose document holds versions.
C20_Witness ==
    /\ last.op = "register_derivative"
    /\ last.res = "file_not_found"
    /\ IsDoc(file[cwd])
    /\ DOMAIN file[cwd].doc.versions # {}

\* C16: comparing a registered version with itself reports no different
\* voxel and a similarity of 1.0, whatever values its voxels hold.
C16_CompareWithItself ==
    (shell = "up" /\ IsDoc(file[cwd])) =>
        \A v \in DOMAIN file[cwd].doc.versions :
            LET r == compare_versions(file[cwd], v, v, "")
            IN  /\ r.call.res = "ok"
                /\ r.call.listing[1] = 0
                /\ r.call.listing[3] = <<r.call.listing[2], r.call.listing[2]>>

\* C17: a command that is not one of the shell's own is run as git with
\* exactly the words the user typed as its arguments, none dropped, added or
\* merged; a commit with its arguments too.
C17_PassThroughVerbatim ==
    last.op = "git" =>
        last.listing = IF last.args[1] = "git"
                       THEN Words(last.args)
                       ELSE <<<<"git">>>> \o Words(last.args)

\* C18: whenever a metadata operation (a registration, show-derivatives,
\* show-patient-tree, compare, history) has run, the shell's current
\* directory holds a metadata file, also after a cd into a directory that
\* was never used.
C18_DocumentInCurrentDirectory ==
    last.op \in {"register_original", "register_derivative", "show_derivatives",
                 "show_patient_tree", "show_history", "compare"} =>
        file[cwd].kind # "absent"

Keys(doc) == DOMAIN doc.original_images \cup DOMAIN doc.versions

\* C15: lost update.  When two processes have each run a registration to
\* its successful end and both had loaded before either saved, the persisted
\* document is exactly the one the last saver wrote, and it lacks the id the
\* other process returned unless the last saver registered the same id or
\* had loaded it.
C15_LostUpdate ==
    \A p \in Procs :
        (/\ race.saver = p /\ race.overlap
         /\ race.procs[p].pc = "done" /\ race.procs[Other(p)].pc = "done") =>
            /\ race.procs[p].r.call.res = "ok"
            /\ race.procs[Other(p)].r.call.res = "ok"
            /\ file[cwd] = race.procs[p].r.content
            /\ (/\ race.procs[Other(p)].r.call.ret # race.procs[p].r.call.ret
                /\ race.procs[Other(p)].r.call.ret
                       \notin Keys(race.procs[p].loaded.doc)) =>
                   race.procs[Other(p)].r.call.ret \notin Keys(file[cwd].doc)

\* Both processes reported success, both had loaded before either saved, and
\* the persisted document lacks the version the first saver registered.
C15_Witness ==
    \E p \in Procs :
        /\ race.saver = p /\ race.overlap
        /\ race.procs[p].pc = "done" /\ race.procs[Other(p)].pc = "done"
        /\ race.procs[Other(p)].r.call.op = "register_derivative"
        /\ race.procs[Other(p)].r.call.res = "ok"
        /\ race.procs[p].r.call.res = "ok"
        /\ IsDoc(file[cwd])
        /\ race.procs[Other(p)].r.call.ret \notin Keys(file[cwd].doc)

\* C21: the queries are read-only.  A step of show-derivatives,
\* show-patient-tree, history or compare, whatever its arguments and whatever
\* output_file compare is given, leaves every metadata file as it was.
C21_QueriesReadOnly ==
    [][last'.op \in {"show_derivatives", "show_patient_tree", "show_history",
                     "compare"} => file' = file]_vars

\* Referential integrity of one document, and no version id listed twice in
\* its derivation index.
Listed(doc) ==
    {<<o, i>> \in (DOMAIN doc.derivatives)
                      \X (1..(Cardinality(DOMAIN doc.versions) + 1)) :
        i <= Len(doc.derivatives[o])}
Sound(doc) ==
    /\ \A v \in DOMAIN doc.versions :
          doc.versions[v].original_id \in DOMAIN doc.original_images
    /\ \A o \in DOMAIN doc.derivatives :
          /\ Len(doc.derivatives[o]) <= Cardinality(DOMAIN doc.versions)
          /\ \A i \in 1..Len(doc.derivatives[o]) :
                doc.derivatives[o][i] \in DOMAIN doc.versions
    /\ \A a \in Listed(doc), b \in Listed(doc) :
          doc.derivatives[a[1]][a[2]] = doc.derivatives[b[1]][b[2]] => a = b

\* C22: referential integrity survives racing processes.  With two processes
\* interleaving the loads and the saves of their registrations, every
\* persisted document, and every document a process is about to write, has
\* each version's original_id in original_images, each listed id in versions
\* and no version id listed twice.
C22_IntegrityUnderRaces ==
    /\ \A m \in Docs : Sound(m)
    /\ \A p \in Procs :
          race.procs[p].pc = "loaded" =>
              (IsDoc(race.procs[p].r.content) /\ Sound(race.procs[p].r.content.doc))

\* Two processes registered a derivative of the same original, both loaded
\* before either saved, and both have saved.
C22_Witness ==
    /\ race.overlap
    /\ \A p \in Procs :
          /\ race.procs[p].pc = "done"
          /\ race.procs[p].r.call.op = "register_derivative"
          /\ race.procs[p].r.call.args[1] = race.procs[1].r.call.args[1]
    /\ IsDoc(file[cwd])
    /\ DOMAIN file[cwd].doc.derivatives # {}

\* C23: the derivation index partitions the versions.  In every persisted
\* document each key of versions is listed exactly once in the whole index,
\* in the list of the original its original_id names, and the lengths of the
\* lists add up to the number of versions.
C23_IndexPartitionsVersions ==
    \A m \in Docs :
        /\ \A v \in DOMAIN m.versions :
              /\ Cardinality({a \in Listed(m) : m.derivatives[a[1]][a[2]] = v}) = 1
              /\ \A a \in Listed(m) :
                    m.derivatives[a[1]][a[2]] = v => a[1] = m.versions[v].original_id
        /\ \A o \in DOMAIN m.derivatives :
              Len(m.derivatives[o]) <= Cardinality(DOMAIN m.versions)
        /\ Cardinality(Listed(m)) = Cardinality(DOMAIN m.versions)

\* A document with two originals, one with two versions and one with none,
\* right after the second version was registered.
C23_Witness ==
    /\ Succeeded("register_derivative")
    /\ IsDoc(file[cwd])
    /\ Cardinality(DOMAIN file[cwd].doc.original_images) = 2
    /\ Cardinality(DOMAIN file[cwd].doc.versions) = 2
    /\ Cardinality(DOMAIN file[cwd].doc.derivatives) = 1

====
